---- MODULE Spec2Model ----
(***************************************************************************)
(* A model of hw4/gan.py: the layer builder, the Discriminator and the     *)
(* Generator (tensor shapes), the two loss functions, one train_batch call *)
(* statement by statement, and save_checkpoint.                            *)
(***************************************************************************)
EXTENDS Integers, Sequences, FiniteSets, TLC

VARIABLES
    \* ---- save_checkpoint ----
    files,        \* the paths torch.save has written
    ckpt,         \* the last save_checkpoint call: its arguments and how it ended
    \* ---- loss functions ----
    lossCall,     \* the last loss-function call: arguments, targets built, result
    \* ---- Discriminator / Generator forward passes (tensor shapes) ----
    fwd,          \* the last forward call: the net, its input shape, the outcome
    \* ---- train_batch ----
    pc,           \* the statement train_batch is about to run
    weight,       \* weight[net]: the learnable parameters of net
    stats,        \* stats[net]: BatchNorm running statistics (batches tracked)
    training,     \* training[net]: nn.Module.training
    grad,         \* grad[net]: the contributions accumulated in the .grad fields
    steps,        \* steps[net]: how many optimizer steps net's parameters have had
    gen,          \* the local `gen` of train_batch (line 203)
    dsc_loss,     \* the local `dsc_loss`
    gen_loss,     \* the local `gen_loss`
    x_data,       \* the real batch of the running call (its batch size)
    calls,        \* number of train_batch calls started
    log,          \* the operations of the running call, in execution order
    w0,           \* the weights when the running call began
    applied       \* applied[net]: every contribution an optimizer step has applied to net

ckptVars  == <<files, ckpt>>
lossVars  == <<lossCall>>
shapeVars == <<fwd>>
trainVars == <<pc, weight, stats, training, grad, steps, gen, dsc_loss, gen_loss,
               x_data, calls, log, w0, applied>>
vars == <<files, ckpt, lossCall, fwd, pc, weight, stats, training,
          grad, steps, gen, dsc_loss, gen_loss, x_data, calls, log, w0, applied>>

Nets == {"dsc", "gen"}

(***************************************************************************)
(* save_checkpoint (lines 221-245)                                         *)
(***************************************************************************)

\* Bounds of the loss histories handed to save_checkpoint.
MaxHistory == 3
MaxLossVal == 1

\* A loss is a Python float: a number, or NaN (every comparison with NaN is False).
Floats == [nan : {FALSE}, v : 0..MaxLossVal] \cup {[nan |-> TRUE, v |-> 0]}

FloatLe(a, b) == ~a.nan /\ ~b.nan /\ a.v <= b.v

Histories == UNION {[1..k -> Floats] : k \in 0..MaxHistory}

Paths == {"ckpt/gan", "run"}

\* Python list indexing lst[i] with a 0-based, possibly negative index:
\* the 1-based position read, or 0 when the access raises IndexError.
PyIndex(lst, i) ==
    IF i >= 0 /\ i < Len(lst) THEN i + 1
    ELSE IF i < 0 /\ i >= -Len(lst) THEN Len(lst) + i + 1
    ELSE 0

\* line 238 as written with < in place of <=
ImprovedStrict(gen_losses, n) ==
    LET a == PyIndex(gen_losses, n)
        b == PyIndex(gen_losses, n - 1)
    IN  IF a = 0 \/ b = 0 THEN "IndexError"
        ELSE IF FloatLe(gen_losses[a], gen_losses[b]) /\ gen_losses[a] # gen_losses[b]
             THEN "True" ELSE "False"

\* line 238: improved = gen_losses[n] <= gen_losses[n-1]
Improved(gen_losses, n) ==
    LET a == PyIndex(gen_losses, n)
        b == PyIndex(gen_losses, n - 1)
    IN  IF a = 0 \/ b = 0 THEN "IndexError"
        ELSE IF FloatLe(gen_losses[a], gen_losses[b]) THEN "True" ELSE "False"

\* line 237 off by one: n = len(gen_losses)
LastIndexOff(gen_losses) == Len(gen_losses)

\* line 237: n = len(gen_losses) - 1
LastIndex(gen_losses) == Len(gen_losses) - 1

\* line 231: checkpoint_file = f"{checkpoint_file}.pt"
CheckpointPath(checkpoint_file) == checkpoint_file \o ".pt"

\* The whole call: `saved` starts False, the comparison may raise, torch.save
\* writes the file and `saved` becomes True.
save_checkpoint(gen_losses, checkpoint_file) ==
    LET path     == CheckpointPath(checkpoint_file)
        n        == LastIndex(gen_losses)
        improved == Improved(gen_losses, n)
    IN  /\ files' = IF improved = "True" THEN files \cup {path} ELSE files
        /\ ckpt' = [gen_losses |-> gen_losses,
                    checkpoint_file |-> checkpoint_file,
                    before |-> files,
                    outcome |-> IF improved = "IndexError" THEN "IndexError"
                                ELSE IF improved = "True" THEN "saved" ELSE "not saved"]
        /\ UNCHANGED <<lossVars, shapeVars, trainVars>>

SaveCheckpoint ==
    \E gen_losses \in Histories, checkpoint_file \in Paths :
        save_checkpoint(gen_losses, checkpoint_file)

NoCall == [gen_losses |-> <<>>, checkpoint_file |-> "", before |-> {}, outcome |-> "none"]

(***************************************************************************)
(* discriminator_loss_fn (lines 130-157), generator_loss_fn (lines 160-177) *)
(* Labels, noise bounds and targets are kept in halves: the integer q      *)
(* stands for q/2, so that label_noise / 2 is exact.  label_noise = k      *)
(* stands for the float k, its half for k halves.                          *)
(***************************************************************************)

\* Bound of the batch size N of the score tensors.
MaxN == 2

ScoreVals   == {-1, 2}          \* raw discriminator scores (logits)
DataLabels  == {-1, 0, 1, 2}    \* data_label arguments, valid and invalid
NoiseLevels == {0, 1}           \* label_noise arguments (>= 0)

Scores == UNION {[1..k -> ScoreVals] : k \in 1..MaxN}

Max(a, b) == IF a >= b THEN a ELSE b
Abs(a) == IF a >= 0 THEN a ELSE -a

RECURSIVE SeqSum(_)
SeqSum(s) == IF s = <<>> THEN 0 ELSE Head(s) + SeqSum(Tail(s))

\* log(1 + exp(-|x|)) in halves, rounded: 0.69, 0.31, 0.13, ... -> 1, 1, 0, ...
Softplus2(x) == IF Abs(x) <= 1 THEN 1 ELSE 0

\* nn.BCEWithLogitsLoss()(y, t): the mean over the batch of
\* max(x, 0) - x * t + log(1 + exp(-|x|)); y in units, t and the result in halves.
BCEWithLogitsLoss(y, t) ==
    SeqSum([i \in 1..Len(y) |-> 2 * Max(y[i], 0) - y[i] * t[i] + Softplus2(y[i])])
        \div Len(y)

\* line 145 / line 170 with the assertion dropped
LabelAssertOff(data_label) == TRUE

\* line 145 / line 170: assert data_label == 1 or data_label == 0
LabelAssert(data_label) == data_label = 1 \/ data_label = 0

\* Tensor.uniform_(from, to) on a tensor of the given length: every element
\* is drawn independently from the interval (bounds in halves).
Uniform(len, from, to) == [1..len -> from..to]

\* lines 150-151 (in halves)
p_noise_range(data_label, label_noise) == 2 * data_label - label_noise
n_noise_Range(data_label, label_noise) == 2 * data_label + label_noise

\* line 153 with the generated batch centred at data_label instead of 1 - data_label
GeneratedTargetsSame(y_generated, data_label, label_noise) ==
    Uniform(Len(y_generated), p_noise_range(data_label, label_noise),
                              n_noise_Range(data_label, label_noise))

\* line 152: the targets of the real batch
DataTargets(y_data, data_label, label_noise) ==
    Uniform(Len(y_data), p_noise_range(data_label, label_noise),
                         n_noise_Range(data_label, label_noise))

\* line 153: the targets of the generated batch
GeneratedTargets(y_generated, data_label, label_noise) ==
    Uniform(Len(y_generated), 2 - n_noise_Range(data_label, label_noise),
                              2 - p_noise_range(data_label, label_noise))

NoLoss == [fn |-> "none", data_label |-> 0, label_noise |-> 0, y_data |-> <<>>,
           y_generated |-> <<>>, outcome |-> "none", n |-> <<>>, gen |-> <<>>,
           loss_data |-> 0, loss_generated |-> 0, loss |-> 0]

discriminator_loss_fn(y_data, y_generated, data_label, label_noise) ==
    LET call == [NoLoss EXCEPT !.fn = "discriminator_loss_fn",
                               !.data_label = data_label,
                               !.label_noise = label_noise,
                               !.y_data = y_data, !.y_generated = y_generated]
    IN  /\ lossCall = NoLoss
        /\ IF ~LabelAssert(data_label)
           THEN lossCall' = [call EXCEPT !.outcome = "AssertionError"]
           ELSE \E n \in DataTargets(y_data, data_label, label_noise),
                   g \in GeneratedTargets(y_generated, data_label, label_noise) :
                    LET loss_data      == BCEWithLogitsLoss(y_data, n)
                        loss_generated == BCEWithLogitsLoss(y_generated, g)
                    IN  lossCall' = [call EXCEPT !.outcome = "returned",
                                                 !.n = n, !.gen = g,
                                                 !.loss_data = loss_data,
                                                 !.loss_generated = loss_generated,
                                                 !.loss = loss_data + loss_generated]
        /\ UNCHANGED <<ckptVars, shapeVars, trainVars>>

generator_loss_fn(y_generated, data_label) ==
    LET call == [NoLoss EXCEPT !.fn = "generator_loss_fn",
                               !.data_label = data_label,
                               !.y_generated = y_generated]
    IN  /\ lossCall = NoLoss
        /\ IF ~LabelAssert(data_label)
           THEN lossCall' = [call EXCEPT !.outcome = "AssertionError"]
           ELSE LET target == [i \in 1..Len(y_generated) |-> 2 * data_label]
                    loss   == BCEWithLogitsLoss(y_generated, target)
                IN  lossCall' = [call EXCEPT !.outcome = "returned",
                                             !.gen = target,
                                             !.loss_generated = loss,
                                             !.loss = loss]
        /\ UNCHANGED <<ckptVars, shapeVars, trainVars>>

DiscriminatorLoss ==
    \E k \in 1..MaxN :
        \E y_data \in [1..k -> ScoreVals], y_generated \in [1..k -> ScoreVals],
           data_label \in DataLabels, label_noise \in NoiseLevels :
            discriminator_loss_fn(y_data, y_generated, data_label, label_noise)

GeneratorLoss ==
    \E y_generated \in Scores, data_label \in DataLabels :
        generator_loss_fn(y_generated, data_label)

(***************************************************************************)
(* create_layer (lines 12-31), Discriminator (36-71), Generator (74-127):  *)
(* tensor shapes.  A shape is a tuple; NoShape is the outcome of a layer   *)
(* that raises.                                                            *)
(***************************************************************************)

\* Bound of featuremap_size.
MaxFeaturemap == 4

BatchSizes == {1, 2, 8}         \* N
ChannelCounts == {1, 3}         \* image channels
ImageSizes == {16, 20, 64}      \* H, W of the images handed to the Discriminator
ZDims == {3, 128}               \* latent dimensions

NoShape == <<>>

\* The keyword defaults of create_layer (lines 12-14).
LayerDefaults == [relu |-> TRUE, batchnorm |-> TRUE, not_leaky |-> FALSE,
                  relu_param |-> "0.3", kernel_size |-> 4, padding |-> 1,
                  stride |-> 2, bias |-> FALSE]

\* lines 15-31: the layers create_layer appends to m
create_layer(m, conv, in_c, out_c, cfg) ==
    m \o <<[kind |-> conv, in_c |-> in_c, out_c |-> out_c,
            kernel_size |-> cfg.kernel_size, padding |-> cfg.padding,
            stride |-> cfg.stride, bias |-> cfg.bias]>>
      \o (IF cfg.batchnorm THEN <<[kind |-> "BatchNorm2d", out_c |-> out_c]>> ELSE <<>>)
      \o (IF cfg.relu
          THEN IF cfg.not_leaky THEN <<[kind |-> "ReLU"]>>
               ELSE <<[kind |-> "LeakyReLU", relu_param |-> cfg.relu_param]>>
          ELSE <<>>)

\* nn.Conv2d: floor((h + 2p - k) / s) + 1; nn.ConvTranspose2d: (h - 1)s - 2p + k
ConvOut(h, l) == (h + 2 * l.padding - l.kernel_size) \div l.stride + 1
ConvTransposeOut(h, l) == (h - 1) * l.stride - 2 * l.padding + l.kernel_size

\* One layer applied to a tensor of shape x = (N, C, H, W).  BatchNorm2d in
\* training mode refuses a single value per channel.
ApplyLayer(l, x, train) ==
    IF x = NoShape THEN NoShape
    ELSE IF l.kind = "Conv2d" THEN
        IF x[2] # l.in_c \/ x[3] + 2 * l.padding < l.kernel_size
                         \/ x[4] + 2 * l.padding < l.kernel_size
        THEN NoShape
        ELSE <<x[1], l.out_c, ConvOut(x[3], l), ConvOut(x[4], l)>>
    ELSE IF l.kind = "ConvTranspose2d" THEN
        IF x[2] # l.in_c THEN NoShape
        ELSE <<x[1], l.out_c, ConvTransposeOut(x[3], l), ConvTransposeOut(x[4], l)>>
    ELSE IF l.kind = "BatchNorm2d" THEN
        IF x[2] # l.out_c \/ (train /\ x[1] * x[3] * x[4] = 1) THEN NoShape ELSE x
    ELSE x

\* nn.Sequential(*modules)(x)
RECURSIVE Sequential(_, _, _)
Sequential(modules, x, train) ==
    IF modules = <<>> THEN x
    ELSE Sequential(Tail(modules), ApplyLayer(Head(modules), x, train), train)

\* lines 48-54: Discriminator.__init__
Discriminator(in_size) ==
    LET m1 == create_layer(<<>>, "Conv2d", in_size[1], 128, LayerDefaults)
        m2 == create_layer(m1, "Conv2d", 128, 256, LayerDefaults)
        m3 == create_layer(m2, "Conv2d", 256, 512, LayerDefaults)
        m4 == create_layer(m3, "Conv2d", 512, 1024, LayerDefaults)
    IN  [in_size |-> in_size,
         lin |-> [in_features |-> in_size[2] * in_size[3] * 4, out_features |-> 1],
         seq |-> m4]

\* t.view(x.shape[0], -1)
Flatten(t, n) == IF t = NoShape THEN NoShape ELSE <<n, t[2] * t[3] * t[4]>>

\* nn.Linear on a (N, in_features) tensor
Linear(lin, t) ==
    IF t = NoShape \/ t[2] # lin.in_features THEN NoShape ELSE <<t[1], lin.out_features>>

\* lines 68-71: Discriminator.forward
DiscriminatorForward(dsc, x, train) ==
    LET t == Sequential(dsc.seq, x, train)
        y == Linear(dsc.lin, Flatten(t, x[1]))
    IN  y

\* lines 89-95 with the first block left at the default kernel size
GeneratorDefaultKernel(z_dim, featuremap_size, out_channels) ==
    LET up == [LayerDefaults EXCEPT !.not_leaky = TRUE]
        m1 == create_layer(<<>>, "ConvTranspose2d", z_dim, 1024,
                           [up EXCEPT !.padding = 0])
        m2 == create_layer(m1, "ConvTranspose2d", 1024, 512, up)
        m3 == create_layer(m2, "ConvTranspose2d", 512, 256, up)
        m4 == create_layer(m3, "ConvTranspose2d", 256, 128, up)
        m5 == create_layer(m4, "ConvTranspose2d", 128, out_channels,
                           [LayerDefaults EXCEPT !.relu = FALSE, !.batchnorm = FALSE])
    IN  [z_dim |-> z_dim, generated_images |-> m5]

\* lines 83-95: Generator.__init__
Generator(z_dim, featuremap_size, out_channels) ==
    LET up == [LayerDefaults EXCEPT !.not_leaky = TRUE]
        m1 == create_layer(<<>>, "ConvTranspose2d", z_dim, 1024,
                           [up EXCEPT !.kernel_size = featuremap_size, !.padding = 0])
        m2 == create_layer(m1, "ConvTranspose2d", 1024, 512, up)
        m3 == create_layer(m2, "ConvTranspose2d", 512, 256, up)
        m4 == create_layer(m3, "ConvTranspose2d", 256, 128, up)
        m5 == create_layer(m4, "ConvTranspose2d", 128, out_channels,
                           [LayerDefaults EXCEPT !.relu = FALSE, !.batchnorm = FALSE])
    IN  [z_dim |-> z_dim, generated_images |-> m5]

\* line 125: Generator.forward on z of shape (N, D): z.view(N, -1, 1, 1)
GeneratorForward(g, z, train) ==
    Sequential(g.generated_images, <<z[1], z[2], 1, 1>>, train)

NoForward == [net |-> "none", in_size |-> <<>>, z_dim |-> 0, featuremap_size |-> 0,
              out_channels |-> 0, training |-> TRUE, x |-> <<>>, with_grad |-> FALSE,
              outcome |-> "none", y |-> NoShape, requires_grad |-> FALSE]

Outcome(y) == IF y = NoShape THEN "raised" ELSE "returned"

\* Discriminator(in_size).forward(x), in training or in eval mode
DiscriminatorCall ==
    \E c \in ChannelCounts, h \in ImageSizes, w \in ImageSizes, train \in BOOLEAN,
       n \in BatchSizes, xc \in ChannelCounts, xh \in ImageSizes, xw \in ImageSizes :
        LET in_size == <<c, h, w>>
            x == <<n, xc, xh, xw>>
            y == DiscriminatorForward(Discriminator(in_size), x, train)
        IN  /\ fwd = NoForward
            /\ fwd' = [NoForward EXCEPT !.net = "Discriminator", !.in_size = in_size,
                                        !.training = train, !.x = x,
                                        !.outcome = Outcome(y), !.y = y,
                                        !.requires_grad = (y # NoShape)]
            /\ UNCHANGED <<ckptVars, lossVars, trainVars>>

\* Generator(z_dim, featuremap_size, out_channels).forward(z)
GeneratorCall ==
    \E z_dim \in ZDims, f \in 1..MaxFeaturemap, c \in ChannelCounts, train \in BOOLEAN,
       n \in BatchSizes, d \in ZDims :
        LET z == <<n, d>>
            y == GeneratorForward(Generator(z_dim, f, c), z, train)
        IN  /\ fwd = NoForward
            /\ fwd' = [NoForward EXCEPT !.net = "Generator", !.z_dim = z_dim,
                                        !.featuremap_size = f, !.out_channels = c,
                                        !.training = train, !.x = z,
                                        !.outcome = Outcome(y), !.y = y,
                                        !.requires_grad = (y # NoShape)]
            /\ UNCHANGED <<ckptVars, lossVars, trainVars>>

\* lines 111-114: Generator.sample(n, with_grad): forward on randn((n, z_dim))
\* under torch.set_grad_enabled(with_grad)
GeneratorSample ==
    \E z_dim \in ZDims, f \in 1..MaxFeaturemap, c \in ChannelCounts, train \in BOOLEAN,
       n \in BatchSizes, with_grad \in BOOLEAN :
        LET z == <<n, z_dim>>
            y == GeneratorForward(Generator(z_dim, f, c), z, train)
        IN  /\ fwd = NoForward
            /\ fwd' = [NoForward EXCEPT !.net = "Generator.sample", !.z_dim = z_dim,
                                        !.featuremap_size = f, !.out_channels = c,
                                        !.training = train, !.x = z,
                                        !.with_grad = with_grad,
                                        !.outcome = Outcome(y), !.y = y,
                                        !.requires_grad = (y # NoShape /\ with_grad)]
            /\ UNCHANGED <<ckptVars, lossVars, trainVars>>

(***************************************************************************)
(* train_batch (lines 180-218), one action per statement.  A network is    *)
(* its learnable weights, its BatchNorm running statistics and its mode;   *)
(* a tensor carries the set of networks its autograd graph reaches.  Every *)
(* forward pass is taken to return (the batch fits the networks).          *)
(***************************************************************************)

\* Bound of the number of train_batch calls.
MaxCalls == 2

GradVals == {-1, 0, 1}          \* the value a backward pass leaves on a network
TrainBatchSizes == {2, 8}       \* x_data.shape[0], sizes every forward pass takes

NoTensor == [n |-> 0, graph |-> {}]
NoLossT  == [kind |-> "none", graph |-> {}, dsteps |-> 0, call |-> 0]

\* The parameters each optimizer object is bound to (lines 185-186).
OptimizerParams(opt) == IF opt = "dsc_optimizer" THEN {"dsc"} ELSE {"gen"}

\* line 206 stepping the generator's optimizer
Line206Slip == "gen_optimizer"
\* line 206: dsc_optimizer.step()
Line206Optimizer == "dsc_optimizer"

\* line 215 stepping the discriminator's optimizer
Line215Slip == "dsc_optimizer"
\* line 215: gen_optimizer.step()
Line215Optimizer == "gen_optimizer"

\* the generator block (213-215) run before the discriminator block (203-206)
NextLineSwapped(line) ==
    CASE line = "l200" -> "l201" [] line = "l201" -> "l213" [] line = "l213" -> "l214"
      [] line = "l214" -> "l215" [] line = "l215" -> "l203" [] line = "l203" -> "l204"
      [] line = "l204" -> "l205" [] line = "l205" -> "l206" [] line = "l206" -> "l218"
      [] OTHER -> "idle"

\* lines 200-218 are straight-line code: the statement after each statement
NextLine(line) ==
    CASE line = "l200" -> "l201" [] line = "l201" -> "l203" [] line = "l203" -> "l204"
      [] line = "l204" -> "l205" [] line = "l205" -> "l206" [] line = "l206" -> "l213"
      [] line = "l213" -> "l214" [] line = "l214" -> "l215" [] line = "l215" -> "l218"
      [] OTHER -> "idle"

\* Generator.sample(n, with_grad) (lines 111-114): the graph is recorded only
\* under set_grad_enabled(True)
Sample(n, with_grad) == [n |-> n, graph |-> IF with_grad THEN {"gen"} ELSE {}]

\* line 204 scoring `gen` without detaching it
DetachMissing(t) == t
\* Tensor.detach() (line 204): the same values, cut off from the graph
Detach(t) == [t EXCEPT !.graph = {}]

\* dsc_model(x): the scores depend on x and on the discriminator's parameters
Score(x) == [n |-> x.n, graph |-> x.graph \cup {"dsc"}]

\* a forward pass without the BatchNorm layers of create_layer
TrackNone(net, passes) == stats
\* lines 24-25: every forward pass of a network in training mode updates the
\* running statistics of its BatchNorm2d layers
Track(net, passes) ==
    [stats EXCEPT ![net] = IF training[net] THEN @ + passes ELSE @]

RECURSIVE GradSum(_)
GradSum(cs) ==
    IF cs = {} THEN 0
    ELSE LET c == CHOOSE c \in cs : TRUE IN c.val + GradSum(cs \ {c})

Tags(cs) == {<<c.call, c.loss>> : c \in cs}

\* loss.backward(): a contribution is accumulated on every network the graph reaches
Backward(loss) ==
    \E g \in [loss.graph -> GradVals] :
        grad' = [net \in Nets |->
                    IF net \in loss.graph
                    THEN grad[net] \cup {[call |-> loss.call, loss |-> loss.kind,
                                          val |-> g[net]]}
                    ELSE grad[net]]

\* optimizer.zero_grad()
ZeroGrad(opt) == grad' = [net \in Nets |-> IF net \in OptimizerParams(opt) THEN {} ELSE grad[net]]

\* optimizer.step(): one update of its parameters from their accumulated gradients
Step(opt) ==
    /\ weight' = [net \in Nets |->
                    IF net \in OptimizerParams(opt) THEN weight[net] - GradSum(grad[net])
                    ELSE weight[net]]
    /\ steps' = [net \in Nets |->
                    IF net \in OptimizerParams(opt) THEN steps[net] + 1 ELSE steps[net]]
    /\ applied' = [net \in Nets |->
                    IF net \in OptimizerParams(opt) THEN applied[net] \cup Tags(grad[net])
                    ELSE applied[net]]

\* nn.Module.train(mode) / eval(), inherited by both classes (lines 36, 74)
SetTraining ==
    \E net \in Nets :
        /\ pc = "idle"
        /\ training' = [training EXCEPT ![net] = ~@]
        /\ UNCHANGED <<pc, weight, stats, grad, steps, gen, dsc_loss, gen_loss,
                       x_data, calls, log, w0, applied>>
        /\ UNCHANGED <<ckptVars, lossVars, shapeVars>>

\* a call of train_batch with a real batch of some size
Call ==
    \E n \in TrainBatchSizes :
        /\ pc = "idle"
        /\ calls < MaxCalls
        /\ pc' = "l200"
        /\ calls' = calls + 1
        /\ x_data' = [n |-> n, graph |-> {}]
        /\ log' = <<>>
        /\ w0' = weight
        /\ gen' = NoTensor
        /\ dsc_loss' = NoLossT
        /\ gen_loss' = NoLossT
        /\ UNCHANGED <<weight, stats, training, grad, steps, applied>>
        /\ UNCHANGED <<ckptVars, lossVars, shapeVars>>

\* line 200: gen_optimizer.zero_grad()
Line200 ==
    /\ pc = "l200"
    /\ pc' = NextLine(pc)
    /\ ZeroGrad("gen_optimizer")
    /\ log' = Append(log, "gen_optimizer.zero_grad")
    /\ UNCHANGED <<weight, stats, training, steps, gen, dsc_loss, gen_loss, x_data,
                   calls, w0, applied>>
    /\ UNCHANGED <<ckptVars, lossVars, shapeVars>>

\* line 201: dsc_optimizer.zero_grad()
Line201 ==
    /\ pc = "l201"
    /\ pc' = NextLine(pc)
    /\ ZeroGrad("dsc_optimizer")
    /\ log' = Append(log, "dsc_optimizer.zero_grad")
    /\ UNCHANGED <<weight, stats, training, steps, gen, dsc_loss, gen_loss, x_data,
                   calls, w0, applied>>
    /\ UNCHANGED <<ckptVars, lossVars, shapeVars>>

\* line 203: gen = gen_model.sample(x_data.shape[0], with_grad=True)
Line203 ==
    /\ pc = "l203"
    /\ pc' = NextLine(pc)
    /\ gen' = Sample(x_data.n, TRUE)
    /\ stats' = Track("gen", 1)
    /\ log' = Append(log, "gen_model.sample")
    /\ UNCHANGED <<weight, training, grad, steps, dsc_loss, gen_loss, x_data, calls,
                   w0, applied>>
    /\ UNCHANGED <<ckptVars, lossVars, shapeVars>>

\* line 204: dsc_loss = dsc_loss_fn(dsc_model(x_data), dsc_model(gen.detach()))
Line204 ==
    LET y_data      == Score(x_data)
        y_generated == Score(Detach(gen))
    IN  /\ pc = "l204"
        /\ pc' = NextLine(pc)
        /\ stats' = Track("dsc", 2)
        /\ dsc_loss' = [kind |-> "dsc", graph |-> y_data.graph \cup y_generated.graph,
                        dsteps |-> steps["dsc"], call |-> calls]
        /\ log' = log \o <<"dsc_model(x_data)", "gen.detach", "dsc_model(detached)",
                           "dsc_loss_fn">>
        /\ UNCHANGED <<weight, training, grad, steps, gen, gen_loss, x_data, calls,
                       w0, applied>>
        /\ UNCHANGED <<ckptVars, lossVars, shapeVars>>

\* line 205: dsc_loss.backward()
Line205 ==
    /\ pc = "l205"
    /\ pc' = NextLine(pc)
    /\ Backward(dsc_loss)
    /\ log' = Append(log, "dsc_loss.backward")
    /\ UNCHANGED <<weight, stats, training, steps, gen, dsc_loss, gen_loss, x_data,
                   calls, w0, applied>>
    /\ UNCHANGED <<ckptVars, lossVars, shapeVars>>

\* line 206: dsc_optimizer.step()
Line206 ==
    /\ pc = "l206"
    /\ pc' = NextLine(pc)
    /\ Step(Line206Optimizer)
    /\ log' = Append(log, Line206Optimizer \o ".step")
    /\ UNCHANGED <<stats, training, grad, gen, dsc_loss, gen_loss, x_data, calls, w0>>
    /\ UNCHANGED <<ckptVars, lossVars, shapeVars>>

\* line 213: gen_loss = gen_loss_fn(dsc_model(gen_model.sample(N, with_grad=True)))
Line213 ==
    LET y_generated == Score(Sample(x_data.n, TRUE))
    IN  /\ pc = "l213"
        /\ pc' = NextLine(pc)
        /\ stats' = [net \in Nets |-> Track(net, 1)[net]]
        /\ gen_loss' = [kind |-> "gen", graph |-> y_generated.graph,
                        dsteps |-> steps["dsc"], call |-> calls]
        /\ log' = log \o <<"gen_model.sample", "dsc_model(sample)", "gen_loss_fn">>
        /\ UNCHANGED <<weight, training, grad, steps, gen, dsc_loss, x_data, calls,
                       w0, applied>>
        /\ UNCHANGED <<ckptVars, lossVars, shapeVars>>

\* line 214: gen_loss.backward()
Line214 ==
    /\ pc = "l214"
    /\ pc' = NextLine(pc)
    /\ Backward(gen_loss)
    /\ log' = Append(log, "gen_loss.backward")
    /\ UNCHANGED <<weight, stats, training, steps, gen, dsc_loss, gen_loss, x_data,
                   calls, w0, applied>>
    /\ UNCHANGED <<ckptVars, lossVars, shapeVars>>

\* line 215: gen_optimizer.step()
Line215 ==
    /\ pc = "l215"
    /\ pc' = NextLine(pc)
    /\ Step(Line215Optimizer)
    /\ log' = Append(log, Line215Optimizer \o ".step")
    /\ UNCHANGED <<stats, training, grad, gen, dsc_loss, gen_loss, x_data, calls, w0>>
    /\ UNCHANGED <<ckptVars, lossVars, shapeVars>>

\* line 218: return dsc_loss.item(), gen_loss.item()
Line218 ==
    /\ pc = "l218"
    /\ pc' = NextLine(pc)
    /\ UNCHANGED <<weight, stats, training, grad, steps, gen, dsc_loss, gen_loss,
                   x_data, calls, log, w0, applied>>
    /\ UNCHANGED <<ckptVars, lossVars, shapeVars>>

(***************************************************************************)
(* Specifications                                                          *)
(***************************************************************************)

Init ==
    /\ files = {}
    /\ ckpt = NoCall
    /\ lossCall = NoLoss
    /\ fwd = NoForward
    /\ pc = "idle"
    /\ weight = [net \in Nets |-> 0]
    /\ stats = [net \in Nets |-> 0]
    /\ training = [net \in Nets |-> TRUE]
    /\ grad = [net \in Nets |-> {}]
    /\ steps = [net \in Nets |-> 0]
    /\ gen = NoTensor
    /\ dsc_loss = NoLossT
    /\ gen_loss = NoLossT
    /\ x_data = NoTensor
    /\ calls = 0
    /\ log = <<>>
    /\ w0 = [net \in Nets |-> 0]
    /\ applied = [net \in Nets |-> {}]

NextCheckpoint == SaveCheckpoint
NextLoss == DiscriminatorLoss \/ GeneratorLoss
NextShape == DiscriminatorCall \/ GeneratorCall \/ GeneratorSample
NextTrain ==
    \/ SetTraining \/ Call \/ Line200 \/ Line201 \/ Line203 \/ Line204 \/ Line205
    \/ Line206 \/ Line213 \/ Line214 \/ Line215 \/ Line218

SpecCheckpoint == Init /\ [][NextCheckpoint]_vars
SpecLoss       == Init /\ [][NextLoss]_vars
SpecShape      == Init /\ [][NextShape]_vars
SpecTrain      == Init /\ [][NextTrain]_vars

(***************************************************************************)
(* save_checkpoint: properties                                             *)
(***************************************************************************)

Called == ckpt.outcome # "none"

\* C1: with at least 2 entries in gen_losses, save_checkpoint returns True and
\* writes '<checkpoint_file>.pt' exactly when the last entry is <= the entry
\* before it; otherwise it returns False and writes no file.
C1_SavesIffNotWorse ==
    (Called /\ Len(ckpt.gen_losses) >= 2) =>
        LET h    == ckpt.gen_losses
            last == h[Len(h)]
            prev == h[Len(h) - 1]
        IN  IF FloatLe(last, prev)
            THEN /\ ckpt.outcome = "saved"
                 /\ files = ckpt.before \cup {ckpt.checkpoint_file \o ".pt"}
            ELSE /\ ckpt.outcome = "not saved"
                 /\ files = ckpt.before

\* The improvement [1.0, 0.0] has been saved to 'run.pt'.
C1_Witness ==
    /\ ckpt.gen_losses = <<[nan |-> FALSE, v |-> 1], [nan |-> FALSE, v |-> 0]>>
    /\ ckpt.checkpoint_file = "run"
    /\ ckpt.outcome = "saved"
    /\ ckpt.before = {}
    /\ files = {"run.pt"}

\* C2 (as stated): with fewer than 2 entries the call ends in an IndexError,
\* writes no file and returns no result.
C2_ShortHistoryFaults ==
    (Called /\ Len(ckpt.gen_losses) < 2) =>
        (ckpt.outcome = "IndexError" /\ files = ckpt.before)

\* C2 (amended): an empty history ends in an IndexError and writes nothing; a
\* history of one entry does not fault: gen_losses[-1] is that same entry, which
\* is compared with itself, so the file is written and True returned unless the
\* entry is NaN (then False, and nothing is written).
C2_ShortHistory ==
    Called =>
        /\ Len(ckpt.gen_losses) = 0 =>
                (ckpt.outcome = "IndexError" /\ files = ckpt.before)
        /\ Len(ckpt.gen_losses) = 1 =>
                IF ckpt.gen_losses[1].nan
                THEN ckpt.outcome = "not saved" /\ files = ckpt.before
                ELSE /\ ckpt.outcome = "saved"
                     /\ files = ckpt.before \cup {ckpt.checkpoint_file \o ".pt"}

\* A call with a one-entry history has written the file and returned True.
C2_Witness ==
    /\ Len(ckpt.gen_losses) = 1
    /\ ckpt.outcome = "saved"
    /\ ckpt.before = {}
    /\ files = {ckpt.checkpoint_file \o ".pt"}

(***************************************************************************)
(* Loss functions: properties                                              *)
(***************************************************************************)

Within(t, centre2, label_noise) ==
    \A i \in 1..Len(t) : centre2 - label_noise <= t[i] /\ t[i] <= centre2 + label_noise

Constant(len, v) == [i \in 1..len |-> v]

\* C6: in discriminator_loss_fn, for data_label in {0,1} and label_noise >= 0,
\* every target of the real batch lies within label_noise/2 of data_label and
\* every target of the generated batch within label_noise/2 of 1 - data_label;
\* with label_noise = 0 the targets are these constants and the result is the
\* unweighted sum of the two sigmoid-cross-entropy terms.
C6_TargetsWithinNoise ==
    (lossCall.fn = "discriminator_loss_fn" /\ lossCall.data_label \in {0, 1}) =>
        /\ lossCall.outcome = "returned"
        /\ Len(lossCall.n) = Len(lossCall.y_data)
        /\ Len(lossCall.gen) = Len(lossCall.y_generated)
        /\ Within(lossCall.n, 2 * lossCall.data_label, lossCall.label_noise)
        /\ Within(lossCall.gen, 2 * (1 - lossCall.data_label), lossCall.label_noise)
        /\ lossCall.label_noise = 0 =>
            /\ lossCall.n = Constant(Len(lossCall.y_data), 2 * lossCall.data_label)
            /\ lossCall.gen =
                   Constant(Len(lossCall.y_generated), 2 * (1 - lossCall.data_label))
            /\ lossCall.loss =
                   BCEWithLogitsLoss(lossCall.y_data,
                       Constant(Len(lossCall.y_data), 2 * lossCall.data_label))
                   + BCEWithLogitsLoss(lossCall.y_generated,
                       Constant(Len(lossCall.y_generated), 2 * (1 - lossCall.data_label)))

\* Noisy targets at both ends of their intervals: data_label = 0, label_noise = 1,
\* real targets -0.5 and +0.5, generated targets 0.5 and 1.5.
C6_Witness ==
    /\ lossCall.fn = "discriminator_loss_fn"
    /\ lossCall.data_label = 0
    /\ lossCall.label_noise = 1
    /\ lossCall.n = <<-1, 1>>
    /\ lossCall.gen = <<1, 3>>

\* C7: both loss functions fail with an assertion error, before any target
\* tensor is built or any loss computed, whenever data_label is not 0 or 1; for
\* data_label in {0,1} the assertion does not fire.
C7_LabelAsserted ==
    lossCall.fn # "none" =>
        IF lossCall.data_label \in {0, 1}
        THEN lossCall.outcome = "returned" /\ lossCall.gen # <<>>
        ELSE /\ lossCall.outcome = "AssertionError"
             /\ lossCall.n = <<>>
             /\ lossCall.gen = <<>>
             /\ lossCall.loss_data = 0 /\ lossCall.loss_generated = 0 /\ lossCall.loss = 0

\* generator_loss_fn(scores, data_label=2) has raised.
C7_Witness ==
    /\ lossCall.fn = "generator_loss_fn"
    /\ lossCall.data_label = 2
    /\ lossCall.outcome = "AssertionError"

(***************************************************************************)
(* Discriminator / Generator shapes: properties                            *)
(***************************************************************************)

\* C4: for every input of shape (N, C, H, W) that Discriminator.forward
\* accepts, it returns a tensor of shape (N,): one dimension, one score per sample.
C4_ScoresOneDimensional ==
    (fwd.net = "Discriminator" /\ fwd.outcome = "returned") => fwd.y = <<fwd.x[1]>>

\* The Discriminator built for the images a Generator call returned takes them:
\* its four blocks leave 1024 channels and a feature map whose flattened size
\* is the input width H*W*4 of its linear layer.
Accepts(y, train) ==
    LET d == Discriminator(<<y[2], y[3], y[4]>>)
        t == Sequential(d.seq, y, train)
    IN  /\ t # NoShape
        /\ t[2] = 1024
        /\ t[2] * t[3] * t[4] = d.lin.in_features
        /\ DiscriminatorForward(d, y, train) # NoShape

GeneratorRan == fwd.net \in {"Generator", "Generator.sample"} /\ fwd.x[2] = fwd.z_dim

Maps ==
    /\ fwd.outcome = "returned"
    /\ fwd.y = <<fwd.x[1], fwd.out_channels,
                 16 * fwd.featuremap_size, 16 * fwd.featuremap_size>>
    /\ Accepts(fwd.y, fwd.training)

\* BatchNorm2d in training mode is handed a single value per channel
SingleValue == fwd.training /\ fwd.x[1] = 1 /\ fwd.featuremap_size = 1

\* C5 (as stated): for every batch size N, featuremap_size f and out_channels c
\* the Generator maps a latent batch (N, z_dim) to (N, c, 16f, 16f), which the
\* Discriminator built with in_size (c, 16f, 16f) accepts.
C5_GeneratorFeedsDiscriminator == GeneratorRan => Maps

\* C5 (amended): the same, except for N = 1 with f = 1 in training mode, where
\* the first BatchNorm2d of the Generator raises.
C5_GeneratorFeedsDiscriminatorBut ==
    GeneratorRan => IF SingleValue THEN fwd.outcome = "raised" ELSE Maps

\* f = 4, c = 3, N = 8 has given (8, 3, 64, 64).
C5_Witness ==
    /\ fwd.net = "Generator.sample"
    /\ fwd.z_dim = 128 /\ fwd.featuremap_size = 4 /\ fwd.out_channels = 3
    /\ fwd.training
    /\ fwd.y = <<8, 3, 64, 64>>

(***************************************************************************)
(* train_batch: properties                                                 *)
(***************************************************************************)

InCall == pc # "idle"
Ran == pc = "idle" /\ calls > 0

\* the contributions of one loss of the running call on one network
Of(net, kind) == {c \in grad[net] : c.loss = kind /\ c.call = calls}

\* C3: in one call the generator's parameters stay as they were through the
\* discriminator sub-step and change only at gen_optimizer.step(); the
\* discriminator's parameters are changed by the call when its gradients are nonzero.
C3_GeneratorUntouchedByDscStep ==
    /\ pc \in {"l200", "l201", "l203", "l204", "l205", "l206", "l213", "l214", "l215"}
            => weight["gen"] = w0["gen"]
    /\ pc = "l218" => weight["gen"] = w0["gen"] - GradSum(Of("gen", "gen"))
    /\ pc \in {"l213", "l214", "l215", "l218"} =>
            /\ Of("dsc", "dsc") # {}
            /\ weight["dsc"] = w0["dsc"] - GradSum(Of("dsc", "dsc"))
            /\ GradSum(Of("dsc", "dsc")) # 0 => weight["dsc"] # w0["dsc"]

\* After the discriminator step of a call with nonzero gradients: the
\* discriminator has moved, the generator has not.
C3_Witness ==
    /\ pc = "l213"
    /\ weight["dsc"] # w0["dsc"]
    /\ weight["gen"] = w0["gen"]
    /\ gen.graph = {"gen"}

TrainBatchOrder ==
    <<"gen_optimizer.zero_grad", "dsc_optimizer.zero_grad",
      "gen_model.sample", "dsc_model(x_data)", "gen.detach", "dsc_model(detached)",
      "dsc_loss_fn", "dsc_loss.backward", "dsc_optimizer.step",
      "gen_model.sample", "dsc_model(sample)", "gen_loss_fn",
      "gen_loss.backward", "gen_optimizer.step">>

\* C8: every call performs, in this order and each exactly once: both
\* zero_grads, a sample, the discriminator loss on the real and the detached
\* batch, backward, dsc_optimizer.step(), then a fresh sample scored by the
\* updated discriminator, the generator loss, backward, gen_optimizer.step().
C8_StepOrder ==
    /\ InCall => /\ Len(log) <= Len(TrainBatchOrder)
                 /\ log = SubSeq(TrainBatchOrder, 1, Len(log))
    /\ (pc = "l218" \/ Ran) =>
            /\ log = TrainBatchOrder
            /\ dsc_loss.dsteps = calls - 1
            /\ gen_loss.dsteps = calls
            /\ steps = [net \in Nets |-> calls]

\* The second call has run to its return.
C8_Witness ==
    /\ pc = "l218"
    /\ calls = 2
    /\ log = TrainBatchOrder
    /\ gen_loss.dsteps = 2

StepLine(net) == IF net = "dsc" THEN "l206" ELSE "l215"
ForwardLines(net) == IF net = "dsc" THEN {"l204", "l213"} ELSE {"l203", "l213"}

\* C9 (as stated): a network's stored state (weights, biases and normalization
\* statistics) changes only at its own optimizer's step; no forward or
\* backward pass changes it.
C9_StateOnlyByOwnStep ==
    [][\A net \in Nets :
          (weight'[net] # weight[net] \/ stats'[net] # stats[net]) => pc = StepLine(net)]_vars

\* C9 (amended): the weights and biases change only at the network's own
\* optimizer step; the normalization statistics are changed by the forward
\* passes, and by every forward pass of a network in training mode; no backward
\* pass changes either.
C9_WeightsOnlyByOwnStep ==
    [][\A net \in Nets :
          /\ weight'[net] # weight[net] => pc = StepLine(net)
          /\ stats'[net] # stats[net] => (pc \in ForwardLines(net) /\ training[net])
          /\ (pc \in ForwardLines(net) /\ pc' # pc /\ training[net])
                => stats'[net] > stats[net]]_vars

\* In the generator sub-step of the first call: the discriminator has had its
\* step, and its third forward pass has moved its statistics again.
C9_Witness ==
    /\ pc = "l214"
    /\ calls = 1
    /\ training["dsc"]
    /\ stats["dsc"] = 3
    /\ stats["gen"] = 2
    /\ weight["dsc"] # w0["dsc"]

\* C10: what an optimizer applies at its step comes only from its own loss of
\* the same call; the generator-loss gradients left on the discriminator at
\* the end of a call are never applied: the next zero_grad clears them.
C10_OwnGradientsOnly ==
    /\ pc = "l206" => /\ Tags(grad["dsc"]) = {<<calls, "dsc">>}
                      /\ grad["gen"] = {}
    /\ pc = "l215" => Tags(grad["gen"]) = {<<calls, "gen">>}
    /\ \A c \in grad["gen"] : c.loss = "gen"
    /\ \A t \in applied["dsc"] : t[2] = "dsc"
    /\ \A t \in applied["gen"] : t[2] = "gen"
    /\ (pc \in {"l215", "l218"} \/ Ran) =>
            Tags(grad["dsc"]) = {<<calls, "dsc">>, <<calls, "gen">>}
    /\ pc \in {"l203", "l204", "l205", "l206"} => \A c \in grad["dsc"] : c.call = calls

\* The second call is at its discriminator step: the first call's
\* generator-loss gradients are gone from the discriminator, unapplied.
C10_Witness ==
    /\ pc = "l206"
    /\ calls = 2
    /\ Tags(grad["dsc"]) = {<<2, "dsc">>}
    /\ applied["dsc"] = {<<1, "dsc">>}
    /\ applied["gen"] = {<<1, "gen">>}

====
